---- MODULE Spec2Model ----
(***************************************************************************)
(* A model of wtf.py: the WTF compiler (priority shunt, dictionary,        *)
(* control-flow patching on the parse stack) and its threaded-code VM.     *)
(*                                                                         *)
(* Python objects are uniform records [k, s, n]:                           *)
(*   k = "num"  a number n          k = "none" the value None              *)
(*   k = "str"  the string s        k = "fn"   the routine (function) s    *)
(*   k = "list" a reference to the Python list stored at heap[n]           *)
(* Lists (code streams, user stacks) live in a heap because the program    *)
(* aliases them (dictionary entries, _PSTK, _VSTK all hold references).    *)
(***************************************************************************)
EXTENDS Integers, Sequences, FiniteSets, TLC

VARIABLES
    CSTK,     \* _CSTK: reference to the code stream under construction/execution
    heap,     \* every Python list allocated so far; heap[1] is the first _CSTK
    DSTK,     \* _DSTK: deferred triples at compile time, operands at run time
    PSTK,     \* _PSTK: parse stack
    VSTK,     \* _VSTK: variables, and the call frames pushed by CALL
    DICT,     \* _DICT entries appended by the program (flat, 4 fields each)
    DBASE,    \* how many fields of the built-in part of _DICT are left
    ERRNO,    \* _ERRNO
    IP,       \* _IP
    NLINE,    \* _NLINE
    status,   \* "compile", "run", or how the process ended
    out,      \* what PRINT wrote, in order
    eof,      \* scan_word() has returned "" (end of source)
    nsteps,   \* number of instructions execute() has run
    hist      \* observations recorded for the properties (never read by the program)

vars == <<CSTK, heap, DSTK, PSTK, VSTK, DICT, DBASE, ERRNO, IP, NLINE,
          status, out, eof, nsteps, hist>>

(***************************************************************************)
(* Values                                                                  *)
(***************************************************************************)
Num(n) == [k |-> "num", s |-> "", n |-> n]
None == [k |-> "none", s |-> "", n |-> 0]
Str(w) == [k |-> "str", s |-> w, n |-> 0]
Fn(w) == [k |-> "fn", s |-> w, n |-> 0]
Ref(i) == [k |-> "list", s |-> "", n |-> i]

IsNum(x) == x.k = "num"
IsRef(x) == x.k = "list"
IsFn(x) == x.k = "fn"

PLACEHOLDER == 1000000
ErrLimit == 100

Last(q) == q[Len(q)]
Front(q) == SubSeq(q, 1, Len(q) - 1)

(***************************************************************************)
(* The built-in dictionary, in the order of the source table.              *)
(***************************************************************************)
BuiltinWords == <<
    <<"$PRINT", 10, "PRINT", None>>,
    <<"(", 0, "open_par", Str(")")>>,
    <<")", 0, "close_par", Str(")")>>,
    <<"*", 110, "MUL", None>>,
    <<"**", 130, "POW", None>>,
    <<"+", 100, "ADD", None>>,
    <<"-", 100, "SUB", None>>,
    <<"/", 110, "DIV", None>>,
    <<"<", 90, "LT", None>>,
    <<"<=", 90, "LEQ", None>>,
    <<"<>", 90, "NEQ", None>>,
    <<"=", 90, "EQ", None>>,
    <<">", 90, "GT", None>>,
    <<">=", 90, "GEQ", None>>,
    <<"ABS", 200, "ABS", None>>,
    <<"AND", 70, "AND", None>>,
    <<"CMD", 0, "BEGIN", Num(0)>>,
    <<"DEF", 0, "DEF", None>>,
    <<"DO", 0, "DO", None>>,
    <<"ELIF", 0, "ELIF", None>>,
    <<"ELSE", 0, "ELSE", None>>,
    <<"END", 0, "END", None>>,
    <<"FCLOSE", 10, "FCLOSE", None>>,
    <<"FGET", 200, "FGET", None>>,
    <<"FI", 0, "FI", None>>,
    <<"FOPEN", 200, "FOPEN", None>>,
    <<"FOR", 0, "FOR", None>>,
    <<"FPUT", 10, "FPUT", None>>,
    <<"FUNC", 0, "BEGIN", Num(250)>>,
    <<"IF", 0, "IF", None>>,
    <<"INCLUDE", 0, "INCLUDE", None>>,
    <<"LEN", 200, "SLEN", None>>,
    <<"LET", 0, "compile_assignment", Fn("VSTORE")>>,
    <<"NEG", 120, "NEG", None>>,
    <<"NEXT", 0, "NEXT", None>>,
    <<"NIL", 255, "PUSH", None>>,
    <<"NOT", 80, "NOT", None>>,
    <<"OD", 0, "OD", None>>,
    <<"OF", 0, "compile_assignment", Fn("ISTORE")>>,
    <<"OR", 60, "OR", None>>,
    <<"POP", 200, "SPOP", None>>,
    <<"PRINT", 10, "PRINT", None>>,
    <<"PROC", 0, "BEGIN", Num(10)>>,
    <<"PUSH", 20, "SPUSH", None>>,
    <<"RAND", 255, "RAND", None>>,
    <<"ROUND", 200, "ROUND", None>>,
    <<"STACK", 0, "STACK", None>>,
    <<"THEN", 0, "THEN", None>>,
    <<"TO", 0, "TO", None>>,
    <<"TOS", 200, "STOS", None>>,
    <<"WHILE", 0, "WHILE", None>>,
    <<"[", 0, "open_par", Str("]")>>,
    <<"\"", 0, "STRCONST", None>>,
    <<"\\", 0, "COMMENT", None>>,
    <<"\n", 0, "NEWLINE", None>> ,
    <<"]", 0, "CLOSEBRA", Str("]")>> >>

\* The flat list _DICT = [w, p, r, v, w, p, r, v, ...] as the source lays it out.
BuiltinDict ==
    [i \in 1..(4 * Len(BuiltinWords)) |->
        LET e == BuiltinWords[((i - 1) \div 4) + 1]
            f == ((i - 1) % 4) + 1
        IN  CASE f = 1 -> Str(e[1])
              [] f = 2 -> Num(e[2])
              [] f = 3 -> Fn(e[3])
              [] OTHER -> e[4]]


(***************************************************************************)
(* The machine state as one record, so that a handler (a sequence of       *)
(* Python statements) is a composition of state transformers.  src is the  *)
(* part of the source the handler may still scan with scan_word().         *)
(***************************************************************************)
Pack(la) ==
    [CSTK |-> CSTK, heap |-> heap, DSTK |-> DSTK, PSTK |-> PSTK, VSTK |-> VSTK,
     DICT |-> DICT, DBASE |-> DBASE, ERRNO |-> ERRNO, IP |-> IP, NLINE |-> NLINE,
     status |-> status, out |-> out, eof |-> eof, src |-> la]

\* The interpreter is still running (no exit(), no uncaught exception).
Live(s) == s.status \in {"compile", "run"}

\* An uncaught Python exception (TypeError, IndexError, AttributeError, ...).
crash(s) == IF Live(s) THEN [s EXCEPT !.status = "crash"] ELSE s
chk(s, cond) == IF cond THEN s ELSE crash(s)

error_on(s, cond) ==
    IF Live(s) /\ cond
    THEN LET e == s.ERRNO + 1
         IN  [s EXCEPT !.ERRNO = e,
                       !.status = IF e > ErrLimit THEN "giveup" ELSE @]
    ELSE s

exit_on(s, cond) == IF Live(s) /\ cond THEN [s EXCEPT !.status = "fatal"] ELSE s

\* push(stk, elem) on one of the global stacks _DSTK, _PSTK, _VSTK, _DICT
push(s, f, x) == IF Live(s) THEN [s EXCEPT ![f] = Append(@, x)] ELSE s

\* pop(stk): the state after it, and the value it returns
pop(s, f) ==
    IF ~Live(s) THEN s
    ELSE IF Len(s[f]) = 0 THEN exit_on(s, TRUE)
    ELSE [s EXCEPT ![f] = Front(@)]
popv(s, f) == IF Live(s) /\ Len(s[f]) > 0 THEN Last(s[f]) ELSE None

\* Python lists reached through a reference
alloc(s) == IF Live(s) THEN [s EXCEPT !.heap = Append(@, <<>>)] ELSE s
newref(s) == Ref(Len(s.heap) + 1)
lst(s, l) == IF IsRef(l) THEN s.heap[l.n] ELSE <<>>
len(s, l) == Len(lst(s, l))
\* stk.append(x) for a list object l
pushl(s, l, x) ==
    IF ~Live(s) THEN s
    ELSE IF ~IsRef(l) THEN crash(s)
    ELSE [s EXCEPT !.heap[l.n] = Append(@, x)]
\* l[i] = x with Python's index rules
inrange(s, l, i) == IsRef(l) /\ IsNum(i) /\ i.n >= -len(s, l) /\ i.n < len(s, l)
pyidx(s, l, i) == IF i.n < 0 THEN len(s, l) + i.n + 1 ELSE i.n + 1
setitem(s, l, i, x) ==
    IF ~Live(s) THEN s
    ELSE IF ~inrange(s, l, i) THEN crash(s)
    ELSE [s EXCEPT !.heap[l.n][pyidx(s, l, i)] = x]

\* emit to the current code stream: push(_CSTK, x)
emit(s, x) == pushl(s, s.CSTK, x)
\* len(_CSTK) as a value; the statement raises when _CSTK is no list
lenC(s) == Num(len(s, s.CSTK))

(***************************************************************************)
(* Lexer: the source is a sequence of words; scan_word() hands out the     *)
(* next one, or "" at the end of the source.                               *)
(***************************************************************************)
scanv(s) == IF Len(s.src) > 0 /\ ~s.eof THEN Head(s.src) ELSE ""
scan_word(s) ==
    IF ~Live(s) THEN s
    ELSE IF Len(s.src) > 0 /\ ~s.eof THEN [s EXCEPT !.src = Tail(@)]
    ELSE [s EXCEPT !.eof = TRUE]

(***************************************************************************)
(* Dictionary                                                              *)
(***************************************************************************)
\* The whole of _DICT
Dict(s) == SubSeq(BuiltinDict, 1, s.DBASE) \o s.DICT
lenDICT(s) == s.DBASE + Len(s.DICT)

RECURSIVE find_from(_, _, _)
find_from(d, w, i) ==
    IF i < 0 THEN -1
    ELSE IF d[i + 1] = Str(w) THEN i
    ELSE find_from(d, w, i - 4)
find_word(d, w) == find_from(d, w, Len(d) - 4)

\* _DICT[i] for a Python index i
dictAt(s, i) == Dict(s)[IF i < 0 THEN lenDICT(s) + i + 1 ELSE i + 1]
dictHas(s, i) == i >= -lenDICT(s) /\ i < lenDICT(s)

\* _DICT.pop()
dict_pop(s) ==
    IF ~Live(s) THEN s
    ELSE IF Len(s.DICT) > 0 THEN [s EXCEPT !.DICT = Front(@)]
    ELSE [s EXCEPT !.DBASE = @ - 1]

(***************************************************************************)
(* Compiler core                                                           *)
(***************************************************************************)
RECURSIVE compile_words(_, _)
compile_words(s, n) ==
    IF ~Live(s) \/ Len(s.DSTK) < 3 THEN s
    ELSE IF ~IsNum(Last(s.DSTK)) THEN crash(s)
    ELSE IF Last(s.DSTK).n >= n
    THEN compile_words(
             emit(emit(pop(pop(pop(s, "DSTK"), "DSTK"), "DSTK"),
                       s.DSTK[Len(s.DSTK) - 1]),
                  s.DSTK[Len(s.DSTK) - 2]),
             n)
    ELSE s

(***************************************************************************)
(* Run-time routines.  Numbers are modelled as integers.                   *)
(***************************************************************************)
POP(s) == pop(s, "DSTK")
POPv(s) == popv(s, "DSTK")
PUSH(s, v) == push(s, "DSTK", v)

\* A JP that does not jump: C20 must fail with it
JP_skip(s, v) == s
JP(s, v) == IF Live(s) THEN [s EXCEPT !.IP = v] ELSE s
\* A JPZ that jumps whatever the popped value is: C8 must fail with it
JPZ_always(s, v) == JP(POP(s), v)
JPZ(s, v) ==
    LET x == POPv(s)
        s1 == POP(s)
    IN  IF Live(s1) /\ x = Num(0) THEN [s1 EXCEPT !.IP = v] ELSE s1
\* A CALL that saves the pc below the stream: C19 must fail with it
CALL_swapped(s, v) ==
    LET s1 == push(push(s, "VSTK", s.IP), "VSTK", s.CSTK)
    IN  IF Live(s1) THEN [s1 EXCEPT !.CSTK = v, !.IP = Num(0)] ELSE s1
CALL(s, v) ==
    LET s1 == push(push(s, "VSTK", s.CSTK), "VSTK", s.IP)
    IN  IF Live(s1) THEN [s1 EXCEPT !.CSTK = v, !.IP = Num(0)] ELSE s1
RET(s, v) ==
    LET ip == popv(s, "VSTK")
        s1 == pop(s, "VSTK")
        c == popv(s1, "VSTK")
        s2 == pop(s1, "VSTK")
    IN  IF Live(s2) THEN [s2 EXCEPT !.IP = ip, !.CSTK = c] ELSE s2

\* _VSTK[v] exists (Python index rules)
hasVar(s, v) == IsNum(v) /\ v.n >= -Len(s.VSTK) /\ v.n < Len(s.VSTK)
varIdx(s, v) == IF v.n < 0 THEN Len(s.VSTK) + v.n + 1 ELSE v.n + 1
VPUSH(s, v) ==
    IF ~Live(s) THEN s
    ELSE IF ~hasVar(s, v) THEN crash(s)
    ELSE PUSH(s, s.VSTK[varIdx(s, v)])
VSTORE(s, v) ==
    LET x == POPv(s)
        s1 == POP(s)
    IN  IF ~Live(s1) THEN s1
        ELSE IF ~hasVar(s1, v) THEN crash(s1)
        ELSE [s1 EXCEPT !.VSTK[varIdx(s1, v)] = x]
VADD(s, v, d) ==
    IF ~Live(s) THEN s
    ELSE IF ~hasVar(s, v) THEN crash(s)
    ELSE IF ~IsNum(s.VSTK[varIdx(s, v)]) THEN crash(s)
    ELSE [s EXCEPT !.VSTK[varIdx(s, v)] = Num(@.n + d)]
VINCR(s, v) == VADD(s, v, 1)
VDECR(s, v) == VADD(s, v, -1)

\* A binary routine: a is the first POP() (the top), b the second.
Binary(s, f(_, _)) ==
    LET a == POPv(s)
        s1 == POP(s)
        b == POPv(s1)
        s2 == POP(s1)
    IN  IF ~Live(s2) THEN s2
        ELSE IF ~(IsNum(a) /\ IsNum(b)) THEN crash(s2)
        ELSE PUSH(s2, Num(f(a.n, b.n)))
Bool(b) == IF b THEN 1 ELSE 0

addf(a, b) == a + b
mulf(a, b) == a * b
\* POP() - POP(), the operands in pop order: C5 must fail with it
subf_swapped(a, b) == a - b
subf(a, b) == (-a) + b
ltf(a, b) == Bool(a > b)
leqf(a, b) == Bool(a >= b)
gtf(a, b) == Bool(a < b)
geqf(a, b) == Bool(a <= b)

ADD(s, v) == Binary(s, addf)
MUL(s, v) == Binary(s, mulf)
SUB(s, v) == Binary(s, subf)
LT(s, v) == Binary(s, ltf)
LEQ(s, v) == Binary(s, leqf)
GT(s, v) == Binary(s, gtf)
GEQ(s, v) == Binary(s, geqf)
\* == and != are defined on every pair of values
EQ(s, v) ==
    LET a == POPv(s)
        s1 == POP(s)
        b == POPv(s1)
        s2 == POP(s1)
    IN  PUSH(s2, Num(Bool(a = b)))
NEQ(s, v) ==
    LET a == POPv(s)
        s1 == POP(s)
        b == POPv(s1)
        s2 == POP(s1)
    IN  PUSH(s2, Num(Bool(a # b)))

\* The number a / b, b # 0.  Numbers are integers in this model: a quotient
\* that is not an integer keeps its floor in n and the fraction in s, and no
\* program of the specifications below computes with such a value.
quotient(a, b) ==
    LET n == IF b < 0 THEN -a ELSE a
        d == IF b < 0 THEN -b ELSE b
    IN  IF n % d = 0 THEN Num(n \div d)
        ELSE [k |-> "num", s |-> ToString(n) \o "/" \o ToString(d), n |-> n \div d]

\* (1.0 / POP()) * POP(): the divisor is popped and inverted first, which
\* raises ZeroDivisionError on 0 and TypeError on a value that is no number
DIV_2(s, b, a) ==
    IF ~Live(s) THEN s
    ELSE IF ~IsNum(a) THEN crash(s)
    ELSE PUSH(s, quotient(a.n, b.n))
DIV_1(s, b) ==
    IF ~Live(s) THEN s
    ELSE IF ~IsNum(b) \/ b.n = 0 THEN crash(s)
    ELSE DIV_2(POP(s), b, POPv(s))
DIV(s, v) == DIV_1(POP(s), POPv(s))

\* a ** e for numbers: 0.0 ** 0.0 is 1.0, 0.0 to a negative power raises
\* ZeroDivisionError
powf(a, e) == IF e = 0 THEN 1 ELSE a ^ e
POW_2(s, e, a) ==
    IF ~Live(s) THEN s
    ELSE IF ~(IsNum(a) /\ IsNum(e)) THEN crash(s)
    ELSE IF e.n >= 0 THEN PUSH(s, Num(powf(a.n, e.n)))
    ELSE IF a.n = 0 THEN crash(s)
    ELSE PUSH(s, quotient(1, powf(a.n, -e.n)))
POW_1(s, e) == POW_2(POP(s), e, POPv(s))
POW(s, v) == POW_1(POP(s), POPv(s))

\* float(POP() != 0 and POP() != 0): Python's "and" does not evaluate its
\* second operand, the second POP(), when the first is false
AND_1(s) == PUSH(POP(s), Num(Bool(POPv(s) # Num(0))))
AND(s, v) ==
    IF ~Live(POP(s)) THEN POP(s)
    ELSE IF POPv(s) # Num(0) THEN AND_1(POP(s))
    ELSE PUSH(POP(s), Num(0))

\* float(POP() != 0 or POP() != 0): Python's "or" does not evaluate its
\* second operand, the second POP(), when the first is true
OR_1(s) == PUSH(POP(s), Num(Bool(POPv(s) # Num(0))))
OR(s, v) ==
    IF ~Live(POP(s)) THEN POP(s)
    ELSE IF POPv(s) # Num(0) THEN PUSH(POP(s), Num(1))
    ELSE OR_1(POP(s))

\* int(x) and len(x) raise TypeError on the wrong type; the index check is fatal
IPUSH(s, v) ==
    LET i == POPv(s)
        s1 == POP(s)
        l == POPv(s1)
        s2 == POP(s1)
    IN  IF ~Live(s2) THEN s2
        ELSE IF ~IsNum(i) \/ ~IsRef(l) THEN crash(s2)
        ELSE IF ~inrange(s2, l, i) THEN exit_on(s2, TRUE)
        ELSE PUSH(s2, s2.heap[l.n][pyidx(s2, l, i)])

PRINT(s, v) ==
    LET x == POPv(s)
        s1 == POP(s)
    IN  IF Live(s1) THEN [s1 EXCEPT !.out = Append(@, x)] ELSE s1

\* User stacks.  push(s, v), pop(s) and len(s) raise when s is no list.
SPUSH_1(s, x, l) == pushl(POP(s), l, x)
SPUSH(s, v) == SPUSH_1(POP(s), POPv(s), POPv(POP(s)))
\* pop(s): fatal on an empty list, else s.pop()
SPOP_1(s, l) ==
    IF ~Live(s) THEN s
    ELSE IF ~IsRef(l) THEN crash(s)
    ELSE IF len(s, l) = 0 THEN exit_on(s, TRUE)
    ELSE PUSH([s EXCEPT !.heap[l.n] = Front(@)], Last(lst(s, l)))
SPOP(s, v) == SPOP_1(POP(s), POPv(s))
STOS_1(s, l) ==
    IF ~Live(s) THEN s
    ELSE IF ~IsRef(l) THEN crash(s)
    ELSE IF len(s, l) = 0 THEN exit_on(s, TRUE)
    ELSE PUSH(s, Last(lst(s, l)))
STOS(s, v) == STOS_1(POP(s), POPv(s))
SLEN_1(s, l) ==
    IF ~Live(s) THEN s
    ELSE IF ~IsRef(l) THEN crash(s)
    ELSE PUSH(s, Num(len(s, l)))
SLEN(s, v) == SLEN_1(POP(s), POPv(s))


(***************************************************************************)
(* Compile-time routines (the immediate words).  A routine is written as   *)
(* a chain of operators, one per group of Python statements: R_1 is what   *)
(* routine R does after its first statements, and so on.                   *)
(***************************************************************************)
RECURSIVE compile(_, _, _, _)

setCSTK(s, c) == IF Live(s) THEN [s EXCEPT !.CSTK = c] ELSE s
\* push(_CSTK, r); push(_CSTK, v)
emit2(s, r, v) == emit(emit(s, r), v)

open_par(s, r) == PUSH(PUSH(PUSH(s, None), r), Num(0))

RECURSIVE close_par(_, _)
close_par_1(s, m, r, v) == IF m = r THEN s ELSE close_par(emit2(s, r, v), m)
close_par(s, m) ==
    IF ~Live(s) THEN s
    ELSE IF Len(s.DSTK) >= 3
    THEN close_par_1(pop(pop(pop(s, "DSTK"), "DSTK"), "DSTK"), m,
                     s.DSTK[Len(s.DSTK) - 1], s.DSTK[Len(s.DSTK) - 2])
    ELSE error_on(s, TRUE)

NEWLINE_1(s) == IF Live(s) THEN [s EXCEPT !.NLINE = @ + 1] ELSE s
NEWLINE(s, v) == NEWLINE_1(compile_words(s, 0))

insert_word_1(s, p, r, v) ==
    push(push(push(push(scan_word(s), "DICT", Str(scanv(s))), "DICT", p),
              "DICT", r), "DICT", v)
insert_word(s, p, r, v) == insert_word_1(compile_words(s, 1), p, r, v)

DEF_1(s, i) ==
    compile(error_on(scan_word(s), scanv(s) # "="), Num(50), Fn("VSTORE"), i)
DEF_(s, v) ==
    DEF_1(insert_word(push(s, "VSTK", Num(0)), Num(255), Fn("VPUSH"),
                      Num(Len(s.VSTK))),
          Num(Len(s.VSTK)))

\* The value compile_assignment returns: find_word(w) for the word it scans
assignment_index(s) == find_word(Dict(s), scanv(s))
compile_assignment_1(s, r, i) ==
    compile(error_on(scan_word(s), scanv(s) # "="), Num(50), r, dictAt(s, i + 3))
compile_assignment(s, r) ==
    IF assignment_index(s) < 0
       \/ dictAt(s, assignment_index(s) + 2) # Fn("VPUSH")
    THEN error_on(scan_word(s), TRUE)
    ELSE compile_assignment_1(scan_word(s), r, assignment_index(s))

STACK(s, v) ==
    insert_word(push(alloc(s), "VSTK", newref(s)), Num(255), Fn("VPUSH"),
                Num(Len(s.VSTK)))

BEGIN_2(s) == push(push(s, "PSTK", Num(lenDICT(s))), "PSTK", Fn("BEGIN"))
BEGIN_1(s, p, c) == BEGIN_2(insert_word(setCSTK(alloc(s), c), p, Fn("CALL"), c))
BEGIN(s, p) == BEGIN_1(push(s, "PSTK", s.CSTK), p, newref(s))

\* An END that leaves the dictionary as it is: C6 must fail with it
truncate_keep(s, d) == s
\* while len(_DICT) > d: four times _DICT.pop()
RECURSIVE truncate(_, _)
truncate(s, d) ==
    IF ~Live(s) THEN s
    ELSE IF ~IsNum(d) THEN crash(s)
    ELSE IF lenDICT(s) > d.n
    THEN truncate(dict_pop(dict_pop(dict_pop(dict_pop(s)))), d)
    ELSE s

END_3(s) == setCSTK(pop(s, "PSTK"), popv(s, "PSTK"))
END_2(s) == END_3(truncate(pop(s, "PSTK"), popv(s, "PSTK")))
END_1(s) ==
    END_2(emit2(error_on(pop(s, "PSTK"), popv(s, "PSTK") # Fn("BEGIN")),
                Fn("RET"), Num(0)))
END(s, v) == END_1(compile_words(s, 0))

IF_(s, v) == push(push(compile_words(s, 1), "PSTK", Fn("FI")), "PSTK", Fn("IF"))

\* push(_PSTK, len(_CSTK) - 1); push(_PSTK, <sentinel>)
mark_placeholder(s, sentinel) ==
    push(push(s, "PSTK", Num(len(s, s.CSTK) - 1)), "PSTK", sentinel)

THEN_(s, v) ==
    mark_placeholder(
        emit2(compile_words(error_on(pop(s, "PSTK"), popv(s, "PSTK") # Fn("IF")), 1),
              Fn("JPZ"), Num(PLACEHOLDER)),
        Fn("THEN"))

\* i = pop(_PSTK); j = len(_CSTK) - 1; push(_PSTK, j); _CSTK[i] = j + 1; push ELSE
ELSE_1(s) ==
    push(setitem(push(pop(s, "PSTK"), "PSTK", Num(len(s, s.CSTK) - 1)),
                 s.CSTK, popv(s, "PSTK"), Num(len(s, s.CSTK))),
         "PSTK", Fn("ELSE"))
ELSE_(s, v) ==
    ELSE_1(emit2(compile_words(error_on(pop(s, "PSTK"),
                                        popv(s, "PSTK") # Fn("THEN")), 1),
                 Fn("JP"), Num(PLACEHOLDER)))

ELIF(s, v) == push(pop(ELSE_(s, v), "PSTK"), "PSTK", Fn("IF"))

\* while (i := pop(_PSTK)) != FI: _CSTK[i] = len(_CSTK)
RECURSIVE FI_1(_)
FI_1(s) ==
    IF ~Live(s) \/ Len(s.PSTK) = 0 THEN pop(s, "PSTK")
    ELSE IF popv(s, "PSTK") # Fn("FI")
    THEN FI_1(setitem(pop(s, "PSTK"), s.CSTK, popv(s, "PSTK"), lenC(s)))
    ELSE pop(s, "PSTK")
FI(s, v) ==
    LET m == popv(s, "PSTK")
    IN  FI_1(compile_words(error_on(pop(s, "PSTK"),
                                    m # Fn("THEN") /\ m # Fn("ELSE")), 1))

\* push(_PSTK, len(_CSTK)): len() raises when _CSTK is no list
WHILE_1(s) == push(push(chk(s, IsRef(s.CSTK)), "PSTK", lenC(s)), "PSTK", Fn("WHILE"))
WHILE(s, v) == WHILE_1(compile_words(s, 1))

DO(s, v) ==
    LET m == popv(s, "PSTK")
    IN  mark_placeholder(
            emit2(compile_words(error_on(pop(s, "PSTK"),
                                         m # Fn("WHILE") /\ m # Fn("FOR")), 1),
                  Fn("JPZ"), Num(PLACEHOLDER)),
            Fn("DO"))

\* push(_CSTK, JP); push(_CSTK, a); _CSTK[b] = len(_CSTK)
OD_3(s, b) == setitem(s, s.CSTK, b, lenC(s))
OD_2(s, a, b) == OD_3(emit2(compile_words(s, 5), Fn("JP"), a), b)
\* b = pop(_PSTK); a = pop(_PSTK)
OD_1(s) ==
    IF Len(s.PSTK) >= 2
    THEN OD_2(pop(pop(s, "PSTK"), "PSTK"), s.PSTK[Len(s.PSTK) - 1], Last(s.PSTK))
    ELSE pop(pop(s, "PSTK"), "PSTK")
OD(s, v) == OD_1(error_on(pop(s, "PSTK"), popv(s, "PSTK") # Fn("DO")))

FOR_1(s, i) ==
    IF ~Live(s) THEN s
    ELSE IF ~dictHas(s, i + 3) THEN crash(s)
    ELSE push(push(s, "PSTK", dictAt(s, i + 3)), "PSTK", Fn("FOR"))
FOR(s, v) == FOR_1(compile_assignment(s, Fn("VSTORE")), assignment_index(s))

\* compile(255, VPUSH, i); compile(50, LT, None); push j, i, FOR
TO_3(s, j, i) ==
    push(push(push(compile(compile(s, Num(255), Fn("VPUSH"), i),
                           Num(50), Fn("LT"), None),
                   "PSTK", j), "PSTK", i), "PSTK", Fn("FOR"))
\* i = pop(_PSTK)
TO_2(s, j) == TO_3(pop(s, "PSTK"), j, popv(s, "PSTK"))
\* j = len(_CSTK); error_on(pop(_PSTK) != FOR, ...)
TO_1(s) ==
    IF ~Live(s) THEN s
    ELSE IF ~IsRef(s.CSTK) THEN crash(s)
    ELSE TO_2(error_on(pop(s, "PSTK"), popv(s, "PSTK") # Fn("FOR")), lenC(s))
TO(s, v) == TO_1(compile_words(s, 1))

\* compile(255, VINCR, i); compile(255, JP, j); _CSTK[b] = len(_CSTK)
NEXT_3(s, b) == setitem(s, s.CSTK, b, lenC(s))
NEXT_2(s, b, i, j) ==
    NEXT_3(compile(compile(s, Num(255), Fn("VINCR"), i), Num(255), Fn("JP"), j), b)
\* b = pop(_PSTK); i = pop(_PSTK); j = pop(_PSTK)
NEXT_1(s) ==
    IF Len(s.PSTK) >= 3
    THEN NEXT_2(pop(pop(pop(s, "PSTK"), "PSTK"), "PSTK"),
                Last(s.PSTK), s.PSTK[Len(s.PSTK) - 1], s.PSTK[Len(s.PSTK) - 2])
    ELSE pop(pop(pop(s, "PSTK"), "PSTK"), "PSTK")
NEXT(s, v) == NEXT_1(error_on(pop(s, "PSTK"), popv(s, "PSTK") # Fn("DO")))

CLOSEBRA(s, r) == compile(close_par(s, r), Num(255), Fn("IPUSH"), None)

(***************************************************************************)
(* r(v): calling the Python object r.  execute() meets the run-time        *)
(* routines; compile() also meets the immediate words.                     *)
(***************************************************************************)
IsRuntime(r) ==
    r.s \in {"PUSH", "JP", "JPZ", "CALL", "RET", "VPUSH", "VSTORE", "VINCR",
             "VDECR", "ADD", "SUB", "MUL", "LT", "LEQ", "GT", "GEQ", "EQ",
             "NEQ", "PRINT", "IPUSH", "SPUSH", "SPOP", "STOS", "SLEN", "DIV",
             "POW", "AND", "OR"}
apply_run(s, r, v) ==
    IF ~Live(s) THEN s
    ELSE IF ~IsFn(r) THEN crash(s)
    ELSE CASE r.s = "PUSH" -> PUSH(s, v)
           [] r.s = "JP" -> JP(s, v)
           [] r.s = "JPZ" -> JPZ(s, v)
           [] r.s = "CALL" -> CALL(s, v)
           [] r.s = "RET" -> RET(s, v)
           [] r.s = "VPUSH" -> VPUSH(s, v)
           [] r.s = "VSTORE" -> VSTORE(s, v)
           [] r.s = "VINCR" -> VINCR(s, v)
           [] r.s = "VDECR" -> VDECR(s, v)
           [] r.s = "ADD" -> ADD(s, v)
           [] r.s = "SUB" -> SUB(s, v)
           [] r.s = "MUL" -> MUL(s, v)
           [] r.s = "LT" -> LT(s, v)
           [] r.s = "LEQ" -> LEQ(s, v)
           [] r.s = "GT" -> GT(s, v)
           [] r.s = "GEQ" -> GEQ(s, v)
           [] r.s = "EQ" -> EQ(s, v)
           [] r.s = "NEQ" -> NEQ(s, v)
           [] r.s = "PRINT" -> PRINT(s, v)
           [] r.s = "IPUSH" -> IPUSH(s, v)
           [] r.s = "SPUSH" -> SPUSH(s, v)
           [] r.s = "SPOP" -> SPOP(s, v)
           [] r.s = "STOS" -> STOS(s, v)
           [] r.s = "SLEN" -> SLEN(s, v)
           [] r.s = "DIV" -> DIV(s, v)
           [] r.s = "POW" -> POW(s, v)
           [] r.s = "AND" -> AND(s, v)
           [] r.s = "OR" -> OR(s, v)

apply(s, r, v) ==
    IF ~Live(s) THEN s
    ELSE IF ~IsFn(r) THEN crash(s)
    ELSE CASE r.s = "open_par" -> open_par(s, v)
           [] r.s = "close_par" -> close_par(s, v)
           [] r.s = "CLOSEBRA" -> CLOSEBRA(s, v)
           [] r.s = "NEWLINE" -> NEWLINE(s, v)
           [] r.s = "DEF" -> DEF_(s, v)
           [] r.s = "compile_assignment" -> compile_assignment(s, v)
           [] r.s = "STACK" -> STACK(s, v)
           [] r.s = "BEGIN" -> BEGIN(s, v)
           [] r.s = "END" -> END(s, v)
           [] r.s = "IF" -> IF_(s, v)
           [] r.s = "THEN" -> THEN_(s, v)
           [] r.s = "ELSE" -> ELSE_(s, v)
           [] r.s = "ELIF" -> ELIF(s, v)
           [] r.s = "FI" -> FI(s, v)
           [] r.s = "WHILE" -> WHILE(s, v)
           [] r.s = "DO" -> DO(s, v)
           [] r.s = "OD" -> OD(s, v)
           [] r.s = "FOR" -> FOR(s, v)
           [] r.s = "TO" -> TO(s, v)
           [] r.s = "NEXT" -> NEXT(s, v)
           [] IsRuntime(r) -> apply_run(s, r, v)

compile(s, p, r, v) ==
    IF ~Live(s) THEN s
    ELSE IF p = Num(0) THEN apply(s, r, v)
    ELSE IF p = Num(255) THEN emit2(s, r, v)
    ELSE push(push(push(compile_words(s, p.n), "DSTK", v), "DSTK", r), "DSTK", p)

(***************************************************************************)
(* compile_file and the main program                                       *)
(***************************************************************************)
\* float(w): the number literals the model's sources use
Literals == {"0", "1", "2", "3", "4", "5", "10", "20", "42"}
float(w) ==
    CASE w = "0" -> 0 [] w = "1" -> 1 [] w = "2" -> 2 [] w = "3" -> 3
      [] w = "4" -> 4 [] w = "5" -> 5 [] w = "10" -> 10 [] w = "20" -> 20
      [] w = "42" -> 42

\* The body of compile_file's loop for the scanned word w
compile_word(s, w) ==
    LET i == find_word(Dict(s), w)
    IN  IF i >= 0
        THEN compile(s, dictAt(s, i + 1), dictAt(s, i + 2), dictAt(s, i + 3))
        ELSE IF w \in Literals
        THEN compile(s, Num(255), Fn("PUSH"), Num(float(w)))
        ELSE error_on(s, TRUE)

\* compile_file on the source s.src
RECURSIVE compile_file(_)
compile_file(s) ==
    LET w == scanv(s)
        s1 == scan_word(s)
    IN  IF ~Live(s) THEN s
        ELSE IF w # "" THEN compile_file(compile_word(s1, w))
        ELSE compile_words(s1, 0)

\* execute(): the assignment _IP = 0 before the loop
execute_start(s) ==
    IF Live(s) THEN [s EXCEPT !.status = "run", !.IP = Num(0)] ELSE s

\* The main program after compile_file() (the dumps left out)
main(s) ==
    LET s1 == IF Live(s) THEN [s EXCEPT !.NLINE = 0] ELSE s
    IN  IF ~Live(s1) THEN s1
        ELSE IF s1.ERRNO = 0
        THEN LET s2 == error_on(s1, Len(s1.DSTK) > 0)
                 s3 == error_on(s2, Len(s2.PSTK) > 0)
             IN  execute_start(s3)
        ELSE [s1 EXCEPT !.status = "exit0"]

\* l[i] (a read) with Python's index rules
getitem(s, l, i) == lst(s, l)[pyidx(s, l, i)]

\* One iteration of execute()'s loop, or its exit
execute_step(s) ==
    IF ~Live(s) THEN s
    ELSE IF ~IsNum(s.IP) \/ ~IsRef(s.CSTK) THEN crash(s)
    ELSE IF s.IP.n < len(s, s.CSTK)
    THEN LET c == s.CSTK
             ip == s.IP.n + 2
             s1 == [s EXCEPT !.IP = Num(ip)]
         IN  IF ~inrange(s1, c, Num(ip - 2)) \/ ~inrange(s1, c, Num(ip - 1))
             THEN crash(s1)
             ELSE apply_run(s1, getitem(s1, c, Num(ip - 2)), getitem(s1, c, Num(ip - 1)))
    ELSE [s EXCEPT !.status = "exit0"]


(***************************************************************************)
(* The state machine.  A source is scanned word by word; the words are     *)
(* chosen one compile step at a time, a step taking the word and the       *)
(* words its handler scans itself (la).  A step whose handler scans past   *)
(* la has met the end of the source.                                       *)
(***************************************************************************)
Set(t) ==
    /\ CSTK' = t.CSTK /\ heap' = t.heap /\ DSTK' = t.DSTK /\ PSTK' = t.PSTK
    /\ VSTK' = t.VSTK /\ DICT' = t.DICT /\ DBASE' = t.DBASE /\ ERRNO' = t.ERRNO
    /\ IP' = t.IP /\ NLINE' = t.NLINE /\ status' = t.status /\ out' = t.out
    /\ eof' = t.eof

Openers == {"IF", "WHILE", "FOR", "CMD", "PROC", "FUNC"}
Closers == {"FI", "OD", "NEXT", "END"}

\* hist.w     the words scanned so far
\* hist.word  the word compiled by the last compile step ("" before the first)
\* hist.pre   the state before the last compile step
\* hist.open  for each opening word not yet closed: the word, the state before
\*            it, the words its handler scanned
\* hist.match the same for the opening word the last word closed
NoMatch == [w |-> "", s |-> Pack(<<>>), la |-> <<>>]
Observe(h, s, w) ==
    [w |-> h,
     word |-> w,
     pre |-> s,
     open |-> IF w \in Openers
              THEN Append(hist.open,
                          [w |-> w, s |-> s,
                           la |-> SubSeq(h, Len(hist.w) + 2, Len(h))])
              ELSE IF w \in Closers /\ Len(hist.open) > 0 THEN Front(hist.open)
              ELSE hist.open,
     match |-> IF w \in Closers /\ Len(hist.open) > 0 THEN Last(hist.open)
               ELSE [w |-> "", s |-> s, la |-> <<>>]]

Init ==
    /\ CSTK = Ref(1) /\ heap = << <<>> >> /\ DSTK = <<>> /\ PSTK = <<>>
    /\ VSTK = <<>> /\ DICT = <<>> /\ DBASE = Len(BuiltinDict) /\ ERRNO = 0
    /\ IP = Num(0) /\ NLINE = 1 /\ status = "compile" /\ out = <<>>
    /\ eof = FALSE /\ nsteps = 0
    /\ hist = [w |-> <<>>, word |-> "", pre |-> Pack(<<>>), open |-> <<>>,
               match |-> NoMatch]

\* compile_file scans a word of W and compiles it; the handler scans la
Word(W, LA, InFam(_)) ==
    /\ status = "compile" /\ ~eof
    /\ \E w \in W : \E la \in LA :
         LET h == hist.w \o <<w>> \o la
             s == Pack(la)
             t == compile_word(s, w)
         IN  /\ InFam(h)
             /\ Len(t.src) = 0
             /\ Set(t)
             /\ hist' = Observe(h, s, w)
             /\ nsteps' = nsteps

\* compile_file meets the end of the source; the main program goes on
Finish(CanEnd(_)) ==
    /\ status = "compile"
    /\ CanEnd(hist.w)
    /\ Set(main(compile_words([Pack(<<>>) EXCEPT !.eof = TRUE], 0)))
    /\ UNCHANGED <<hist, nsteps>>

\* execute() runs one instruction, or ends; at most max instructions are run
ExecUpTo(max) ==
    /\ status = "run"
    /\ nsteps < max
    /\ Set(execute_step(Pack(<<>>)))
    /\ nsteps' = nsteps + 1
    /\ UNCHANGED hist

MaxSteps == 12
Exec == ExecUpTo(MaxSteps)

(***************************************************************************)
(* Specification Spec: every source of at most MaxWords words over the     *)
(* words below.                                                            *)
(***************************************************************************)
MaxWords == 3
Names == {"x"}
NoLA == {<<>>}
NameLA == {<<>>} \cup {<<n>> : n \in Names}
AssignLA == NameLA \cup {<<n, e>> : n \in Names, e \in {"=", "1"}}

AnyLen(h) == Len(h) <= MaxWords
Always(h) == TRUE

Plain ==
    Word({"1", "+", "PRINT", "x", "zz"}, NoLA, AnyLen)
Parens ==
    Word({"(", ")", "[", "]", "\n"}, NoLA, AnyLen)
Declare ==
    \/ Word({"DEF", "LET"}, AssignLA, AnyLen)
    \/ Word({"STACK"}, NameLA, AnyLen)
Blocks ==
    \/ Word({"CMD", "PROC"}, NameLA, AnyLen)
    \/ Word({"END"}, NoLA, AnyLen)
Conditional ==
    Word({"IF", "THEN", "ELIF", "ELSE", "FI"}, NoLA, AnyLen)
Loops ==
    \/ Word({"WHILE", "DO", "OD", "TO", "NEXT"}, NoLA, AnyLen)
    \/ Word({"FOR"}, AssignLA, AnyLen)
EndOfSource == Finish(Always)

Next == Plain \/ Parens \/ Declare \/ Blocks \/ Conditional \/ Loops
           \/ EndOfSource \/ Exec

Spec == Init /\ [][Next]_vars


(***************************************************************************)
(* Properties checked under Spec                                           *)
(***************************************************************************)
\* The compile step of the word hist.word has just been taken
JustCompiled(w) == hist.word = w /\ ~eof /\ nsteps = 0

\* compile_file has returned with no error reported and execute() is about to start
CompiledClean == status = "run" /\ nsteps = 0 /\ ERRNO = 0

EvenIndexOpcodes(c) == \A j \in 1..Len(c) : j % 2 = 1 => IsFn(c[j])

\* C1: after a compilation that reported no error, every code stream has even
\* length and every even-index entry (Python index 0, 2, ...) is a routine.
\* (No user stack has elements before execute() starts, so every list of the
\* heap is checked.)
C1_CodeShape ==
    CompiledClean =>
        \A i \in 1..Len(heap) : Len(heap[i]) % 2 = 0 /\ EvenIndexOpcodes(heap[i])

\* C2: execute() is entered only with an error counter of zero, the two
\* end-of-compilation checks included.
C2_ExecuteOnlyWithoutErrors == status = "run" => ERRNO = 0

ClosingWords == {"THEN", "ELSE", "ELIF", "FI", "DO", "OD", "TO", "NEXT", "END"}

\* C10: a closing or continuing block word met with an empty parse stack is
\* reported through error_on (one more error) and compilation goes on.
C10_UnmatchedCloserRecoverable ==
    (\E w \in ClosingWords : JustCompiled(w) /\ hist.pre.PSTK = <<>>)
        => (status = "compile" /\ ERRNO = hist.pre.ERRNO + 1)


(***************************************************************************)
(* Specification SpecExpr: the sources are the expressions                 *)
(*     literal (operator literal)*                                         *)
(* over the operators + - *, compiled and then executed.                   *)
(***************************************************************************)
MaxExprWords == 7
ExprLiterals == {"1", "2", "3", "10"}
ExprOps == {"+", "-", "*"}

ExprShape(h) ==
    \A i \in 1..Len(h) :
        IF i % 2 = 1 THEN h[i] \in ExprLiterals ELSE h[i] \in ExprOps
ExprPrefix(h) == Len(h) <= MaxExprWords /\ ExprShape(h)
IsExpr(h) == Len(h) % 2 = 1 /\ ExprShape(h)

ExprOperand == Word(ExprLiterals, NoLA, ExprPrefix)
ExprOperator == Word(ExprOps, NoLA, ExprPrefix)
ExprEnd == Finish(IsExpr)

NextExpr == ExprOperand \/ ExprOperator \/ ExprEnd \/ Exec

SpecExpr == Init /\ [][NextExpr]_vars

\* The value of the standard precedence parse of the expression h: a sum or
\* difference, taken left to right, of products of literals.
RECURSIVE ProductEnd(_, _)
ProductEnd(h, i) ==
    IF i + 1 <= Len(h) /\ h[i + 1] = "*" THEN ProductEnd(h, i + 2) ELSE i
RECURSIVE ProductValue(_, _, _)
ProductValue(h, i, e) ==
    IF i >= e THEN float(h[i]) ELSE float(h[i]) * ProductValue(h, i + 2, e)
TermValue(h, i) == ProductValue(h, i, ProductEnd(h, i))
RECURSIVE SumValue(_, _, _)
SumValue(h, acc, i) ==
    IF i > Len(h) THEN acc
    ELSE SumValue(h,
                  IF h[i] = "+" THEN acc + TermValue(h, i + 1)
                  ELSE acc - TermValue(h, i + 1),
                  ProductEnd(h, i + 1) + 1)
ExprValue(h) == SumValue(h, TermValue(h, 1), ProductEnd(h, 1) + 1)

\* C5: an expression over number literals and + - * compiles without error,
\* runs to its end, and leaves on the data stack exactly the value of its
\* standard precedence parse (* before + and -, equal priorities left to
\* right, a - b in source order).
C5_PrecedenceParse ==
    (eof /\ IsExpr(hist.w)) =>
        /\ status \in {"run", "exit0"}
        /\ ERRNO = 0
        /\ status = "run" => nsteps < MaxSteps
        /\ status = "exit0" => DSTK = <<Num(ExprValue(hist.w))>>

\* 10 - 3 - 2 has been compiled and executed, and has left 5
C5_Witness ==
    /\ status = "exit0"
    /\ hist.w = <<"10", "-", "3", "-", "2">>
    /\ DSTK = <<Num(5)>>


(***************************************************************************)
(* Families of sources given as sets of programs: a compile step stays     *)
(* within the prefixes of the programs, and the source ends at a program.  *)
(***************************************************************************)
IsPrefix(h, p) == Len(h) <= Len(p) /\ SubSeq(p, 1, Len(h)) = h

(***************************************************************************)
(* Specification SpecCall: a block f defined by CMD, PROC or FUNC, closed  *)
(* by END, and used by name one or more times by the surrounding program:  *)
(*     K f m PRINT / END / 2 PRINT / f / ... / f / 3 PRINT                 *)
(***************************************************************************)
MaxUses == 2
MaxCallSteps == 16
BlockWords == {"CMD", "PROC", "FUNC"}
BlockBodies == {"0", "1", "4"}

RECURSIVE Uses(_)
Uses(n) == IF n = 0 THEN <<>> ELSE <<"f", "\n">> \o Uses(n - 1)
CallProgram(k, m, n) ==
    <<k, "f", m, "PRINT", "\n", "END", "\n", "2", "PRINT", "\n">>
        \o Uses(n) \o <<"3", "PRINT", "\n">>
CallPrograms ==
    {CallProgram(k, m, n) : k \in BlockWords, m \in BlockBodies, n \in 1..MaxUses}
CallPrefix(h) == \E p \in CallPrograms : IsPrefix(h, p)
CallDone(h) == h \in CallPrograms

CallOpen == Word(BlockWords, {<<"f">>}, CallPrefix)
CallWord == Word(Literals \cup {"PRINT", "\n", "END", "f"}, NoLA, CallPrefix)
CallEnd == Finish(CallDone)
CallExec == ExecUpTo(MaxCallSteps)

NextCall == CallOpen \/ CallWord \/ CallEnd \/ CallExec

SpecCall == Init /\ [][NextCall]_vars

\* What the program prints when each use of f runs the block at that point
RECURSIVE Repeat(_, _)
Repeat(x, n) == IF n = 0 THEN <<>> ELSE <<x>> \o Repeat(x, n - 1)
CallOutput(m, n) == <<Num(2)>> \o Repeat(Num(float(m)), n) \o <<Num(3)>>

\* C3: using the name of a closed block at compile time changes neither the
\* code stream under construction nor the variable stack, and at run time each
\* use runs the block's code at that point, execution then going on with the
\* surrounding code.
C3_InvokeByName ==
    /\ JustCompiled("f") =>
          (status = "compile" /\ CSTK = hist.pre.CSTK /\ VSTK = hist.pre.VSTK)
    /\ \A k \in BlockWords : \A m \in BlockBodies : \A n \in 1..MaxUses :
          (eof /\ hist.w = CallProgram(k, m, n)) =>
              /\ status \in {"run", "exit0"}
              /\ status = "run" => nsteps < MaxCallSteps
              /\ status = "exit0" => out = CallOutput(m, n)


(***************************************************************************)
(* Specification SpecNewline: the sources are the sequences of at most     *)
(* MaxStatements of the statements below; they are compiled, not run.      *)
(***************************************************************************)
MaxStatements == 4
NlStatements ==
    { <<"1", "PRINT">>, <<"x", "PRINT">>, <<"\n">>,
      <<"DEF", "x", "=", "0">>,
      <<"FOR", "x", "=", "0", "TO", "2", "DO">>, <<"NEXT">>,
      <<"WHILE", "0", "DO">>, <<"OD">>,
      <<"IF", "1", "THEN">>, <<"FI">>,
      <<"CMD", "f">>, <<"END">> }

\* h is a sequence of at most n statements
RECURSIVE StmtSeq(_, _)
StmtSeq(h, n) ==
    \/ h = <<>>
    \/ /\ n > 0
       /\ \E st \in NlStatements :
             IsPrefix(st, h) /\ StmtSeq(SubSeq(h, Len(st) + 1, Len(h)), n - 1)
\* h is the beginning of a sequence of at most n statements
RECURSIVE StmtPrefix(_, _)
StmtPrefix(h, n) ==
    \/ h = <<>>
    \/ /\ n > 0
       /\ \E st \in NlStatements :
             \/ IsPrefix(h, st)
             \/ IsPrefix(st, h) /\ StmtPrefix(SubSeq(h, Len(st) + 1, Len(h)), n - 1)
NlPrefix(h) == StmtPrefix(h, MaxStatements)
NlDone(h) == StmtSeq(h, MaxStatements)

NlAssign == Word({"DEF", "FOR"}, {<<"x", "=">>}, NlPrefix)
NlBlock == Word({"CMD"}, {<<"f">>}, NlPrefix)
NlWord ==
    Word({"0", "1", "2", "x", "PRINT", "\n", "TO", "DO", "NEXT", "WHILE", "OD",
          "IF", "THEN", "FI", "END"}, NoLA, NlPrefix)
NlEnd == Finish(NlDone)

NextNewline == NlAssign \/ NlBlock \/ NlWord \/ NlEnd

SpecNewline == Init /\ [][NextNewline]_vars

\* The interpreter's state when compile_file() is called on the source ws
Boot(ws) ==
    [CSTK |-> Ref(1), heap |-> << <<>> >>, DSTK |-> <<>>, PSTK |-> <<>>,
     VSTK |-> <<>>, DICT |-> <<>>, DBASE |-> Len(BuiltinDict), ERRNO |-> 0,
     IP |-> Num(0), NLINE |-> 1, status |-> "compile", out |-> <<>>,
     eof |-> FALSE, src |-> ws]

\* The positions of h between two statements, and h with one more newline there
Boundaries(h) ==
    {k \in 1..(Len(h) - 1) :
        /\ StmtSeq(SubSeq(h, 1, k), MaxStatements)
        /\ StmtSeq(SubSeq(h, k + 1, Len(h)), MaxStatements)}
InsertNewline(h, k) == SubSeq(h, 1, k) \o <<"\n">> \o SubSeq(h, k + 1, Len(h))

\* The words a newline is inserted in front of: the closers of loop, block and
\* conditional bodies, and the defining words
NlFollowers == {"NEXT", "OD", "END", "FI", "CMD", "DEF"}

\* C4: for a source compiled without error, the same source with one more
\* newline between two of its statements, the second of them a closer
\* (NEXT, OD, END, FI) or a defining word (CMD, DEF), compiles to the same
\* code streams.
C4_NewlineIdempotence ==
    (eof /\ status = "run" /\ ERRNO = 0) =>
        \A k \in Boundaries(hist.w) :
            hist.w[k + 1] \in NlFollowers =>
                compile_file(Boot(InsertNewline(hist.w, k))).heap = heap


(***************************************************************************)
(* Specification SpecScope: sources of at most MaxScopeWords words made of *)
(* block openers, END, the defining words DEF and STACK, and uses of the   *)
(* names; they are compiled, not run.                                      *)
(***************************************************************************)
MaxScopeWords == 7
ScopeNames == {"f", "x"}
ScopeLen(h) == Len(h) <= MaxScopeWords

ScopeOpen == Word({"CMD", "FUNC"}, {<<n>> : n \in ScopeNames}, ScopeLen)
ScopeClose == Word({"END"}, NoLA, ScopeLen)
ScopeDefine ==
    \/ Word({"STACK"}, {<<n>> : n \in ScopeNames}, ScopeLen)
    \/ Word({"DEF"}, {<<"x", "=">>}, ScopeLen)
ScopeUse == Word(ScopeNames, NoLA, ScopeLen)

NextScope == ScopeOpen \/ ScopeClose \/ ScopeDefine \/ ScopeUse

SpecScope == Init /\ [][NextScope]_vars

\* END has just closed a block opened by CMD, PROC or FUNC
BlockClosed == JustCompiled("END") /\ hist.match.w \in BlockWords

\* C6: right after the END of a CMD/PROC/FUNC block the dictionary is the
\* dictionary of right before the opening word plus one entry of four fields,
\* the block's name; so every name looks up as it did before the block (what
\* the block defined is gone, what it shadowed is back), but the block's name,
\* which finds the new entry.
C6_DictionaryScoping ==
    BlockClosed =>
        /\ status = "compile"
        /\ lenDICT(Pack(<<>>)) = lenDICT(hist.match.s) + 4
        /\ SubSeq(Dict(Pack(<<>>)), 1, lenDICT(hist.match.s)) = Dict(hist.match.s)
        /\ dictAt(Pack(<<>>), -4) = Str(hist.match.la[1])
        /\ dictAt(Pack(<<>>), -2) = Fn("CALL")
        /\ \A n \in ScopeNames :
              find_word(Dict(Pack(<<>>)), n) =
                  IF n = hist.match.la[1] THEN lenDICT(hist.match.s)
                  ELSE find_word(Dict(hist.match.s), n)

\* a block that defines x, shadowing an outer x, has been closed
C6_Witness ==
    /\ BlockClosed
    /\ find_word(Dict(hist.match.s), "x") >= 0
    /\ find_word(Dict(hist.pre), "x") > lenDICT(hist.match.s)
    /\ find_word(Dict(Pack(<<>>)), "x") = find_word(Dict(hist.match.s), "x")


(***************************************************************************)
(* Specification SpecNest: the sources declare the variable x and go on    *)
(* with at most MaxNestWords words in which the constructs                 *)
(*     IF .. THEN .. (ELIF .. THEN ..)* (ELSE ..)? FI    WHILE .. DO .. OD *)
(*     FOR x = .. TO .. DO .. NEXT                       CMD|PROC f .. END *)
(* are properly nested; a source ends where all of them are closed.  They  *)
(* are compiled, not run.                                                  *)
(***************************************************************************)
MaxNestWords == 8
NestPrelude == <<"DEF", "x", "=", "0", "\n">>

\* The open constructs, innermost last, each by the part it is in; Misnested
\* for a word out of place.
Misnested == <<"misnested">>
NestBody == {"", "THEN", "ELSE", "WHILE-DO", "FOR-DO", "BLOCK"}
NestFillers == {"1", "f", "x", "="}
NestTop(k) == IF Len(k) = 0 THEN "" ELSE Last(k)
NestOpening(k, part) == IF NestTop(k) \in NestBody THEN Append(k, part) ELSE Misnested
NestMoving(k, from, part) ==
    IF NestTop(k) \in from THEN Append(Front(k), part) ELSE Misnested
NestClosing(k, from) == IF NestTop(k) \in from THEN Front(k) ELSE Misnested
NestStep(k, w) ==
    IF k = Misnested THEN Misnested
    ELSE CASE w = "IF" -> NestOpening(k, "IF")
           [] w = "THEN" -> NestMoving(k, {"IF"}, "THEN")
           [] w = "ELIF" -> NestMoving(k, {"THEN"}, "IF")
           [] w = "ELSE" -> NestMoving(k, {"THEN"}, "ELSE")
           [] w = "FI" -> NestClosing(k, {"THEN", "ELSE"})
           [] w = "WHILE" -> NestOpening(k, "WHILE")
           [] w = "FOR" -> NestOpening(k, "FOR")
           [] w = "TO" -> NestMoving(k, {"FOR"}, "TO")
           [] w = "DO" -> IF NestTop(k) = "WHILE"
                          THEN NestMoving(k, {"WHILE"}, "WHILE-DO")
                          ELSE NestMoving(k, {"TO"}, "FOR-DO")
           [] w = "OD" -> NestClosing(k, {"WHILE-DO"})
           [] w = "NEXT" -> NestClosing(k, {"FOR-DO"})
           [] w \in {"CMD", "PROC"} -> NestOpening(k, "BLOCK")
           [] w = "END" -> NestClosing(k, {"BLOCK"})
           [] w \in NestFillers -> k
           [] OTHER -> Misnested
RECURSIVE NestFrom(_, _, _)
NestFrom(k, h, i) == IF i > Len(h) THEN k ELSE NestFrom(NestStep(k, h[i]), h, i + 1)
NestOf(h) == NestFrom(<<>>, h, Len(NestPrelude) + 1)

NestPrefix(h) ==
    \/ IsPrefix(h, NestPrelude)
    \/ /\ IsPrefix(NestPrelude, h)
       /\ Len(h) <= Len(NestPrelude) + MaxNestWords
       /\ NestOf(h) # Misnested
NestDone(h) == IsPrefix(NestPrelude, h) /\ NestOf(h) = <<>>

NestOpen ==
    \/ Word({"IF", "WHILE"}, NoLA, NestPrefix)
    \/ Word({"FOR", "DEF"}, {<<"x", "=">>}, NestPrefix)
    \/ Word({"CMD", "PROC"}, {<<"f">>}, NestPrefix)
NestMiddle == Word({"THEN", "ELIF", "ELSE", "DO", "TO"}, NoLA, NestPrefix)
NestClose == Word(Closers, NoLA, NestPrefix)
NestFill == Word({"0", "1", "f", "\n"}, NoLA, NestPrefix)
NestEnd == Finish(NestDone)

NextNest == NestOpen \/ NestMiddle \/ NestClose \/ NestFill \/ NestEnd

SpecNest == Init /\ [][NextNest]_vars

\* C7: in a source whose constructs are properly nested and closed, the parse
\* stack after each closing word (FI, OD, NEXT, END) is the parse stack of just
\* before the matching opening word, and at the end of the source the parse
\* stack is empty.
C7_ParseBalance ==
    /\ (\E w \in Closers : JustCompiled(w)) =>
          (status = "compile" /\ PSTK = hist.match.s.PSTK)
    /\ eof => (status \in {"run", "exit0"} /\ PSTK = <<>>)


(***************************************************************************)
(* Specification SpecIf: the chains                                        *)
(*     IF c1 THEN 1 PRINT (ELIF ci THEN i PRINT)* (ELSE 0 PRINT)? FI       *)
(* followed by 10 PRINT.  A condition is t or z, two functions that print  *)
(* 42 and 5 when they are evaluated and return 1 and 0.  The example       *)
(* IF 1 THEN 42 PRINT ELSE 0 PRINT FI is one more source.                  *)
(***************************************************************************)
MaxElif == 2
MaxIfSteps == 30
IfPrelude ==
    <<"FUNC", "t", "42", "PRINT", "\n", "1", "END", "\n",
      "FUNC", "z", "5", "PRINT", "\n", "0", "END", "\n">>
IfExample == <<"IF", "1", "THEN", "42", "PRINT", "ELSE", "0", "PRINT", "FI">>

CondSeqs == UNION {[1..n -> {"t", "z"}] : n \in 1..(MaxElif + 1)}
BodyLiteral(i) == CASE i = 1 -> "1" [] i = 2 -> "2" [] i = 3 -> "3" [] OTHER -> "4"
RECURSIVE ElifParts(_, _)
ElifParts(cs, i) ==
    IF i > Len(cs) THEN <<>>
    ELSE <<"ELIF", cs[i], "THEN", BodyLiteral(i), "PRINT">> \o ElifParts(cs, i + 1)
ChainProgram(cs, e) ==
    IfPrelude \o <<"IF", cs[1], "THEN", BodyLiteral(1), "PRINT">> \o ElifParts(cs, 2)
        \o (IF e THEN <<"ELSE", "0", "PRINT">> ELSE <<>>)
        \o <<"FI", "10", "PRINT">>
IfPrograms == {ChainProgram(cs, e) : cs \in CondSeqs, e \in BOOLEAN} \cup {IfExample}
IfPrefix(h) == \E p \in IfPrograms : IsPrefix(h, p)
IfDone(h) == h \in IfPrograms

IfDefine == Word({"FUNC"}, {<<"t">>, <<"z">>}, IfPrefix)
IfWord ==
    Word(Literals \cup {"t", "z", "PRINT", "\n", "END", "IF", "THEN", "ELIF",
                        "ELSE", "FI"}, NoLA, IfPrefix)
IfEnd == Finish(IfDone)
IfExec == ExecUpTo(MaxIfSteps)

NextIf == IfDefine \/ IfWord \/ IfEnd \/ IfExec

SpecIf == Init /\ [][NextIf]_vars

\* What a chain prints: the marks of the conditions up to the first non-zero
\* one, the mark of its body (of the ELSE body if there is none), and the 10
\* of the statement after FI.
RECURSIVE ChainFrom(_, _, _)
ChainFrom(cs, i, e) ==
    IF i > Len(cs) THEN (IF e THEN <<Num(0)>> ELSE <<>>)
    ELSE IF cs[i] = "t" THEN <<Num(42), Num(float(BodyLiteral(i)))>>
    ELSE <<Num(5)>> \o ChainFrom(cs, i + 1, e)
ChainOutput(cs, e) == ChainFrom(cs, 1, e) \o <<Num(10)>>

\* C8: a chain IF c1 THEN b1 (ELIF ci THEN bi)* (ELSE e)? FI evaluates its
\* conditions in order up to the first non-zero one, runs the body of that one
\* only (the ELSE body, or nothing, if all are zero), and goes on with the
\* instruction after FI; IF 1 THEN 42 PRINT ELSE 0 PRINT FI prints 42 only.
C8_IfChain ==
    /\ \A cs \in CondSeqs : \A e \in BOOLEAN :
          (eof /\ hist.w = ChainProgram(cs, e)) =>
              /\ status \in {"run", "exit0"}
              /\ ERRNO = 0
              /\ status = "run" => nsteps < MaxIfSteps
              /\ status = "exit0" => out = ChainOutput(cs, e)
    /\ (eof /\ hist.w = IfExample) =>
          /\ status \in {"run", "exit0"}
          /\ status = "exit0" => out = <<Num(42)>>

\* the chain IF z .. ELIF t .. ELIF t .. ELSE .. FI has run: the third
\* condition was not evaluated, the second body and the statement after FI ran
C8_Witness ==
    /\ status = "exit0"
    /\ hist.w = ChainProgram(<<"z", "t", "t">>, TRUE)
    /\ out = <<Num(5), Num(42), Num(2), Num(10)>>


(***************************************************************************)
(* Specification SpecFor: the loops                                        *)
(*     DEF i = 0 / FOR i = a TO b DO i PRINT NEXT                          *)
(* with and without a newline between the body and NEXT.                   *)
(***************************************************************************)
MaxForSteps == 48
ForLimits == {"0", "1", "2", "3", "4"}
ForProgram(a, b, nl) ==
    <<"DEF", "i", "=", "0", "\n", "FOR", "i", "=", a, "TO", b, "DO", "i", "PRINT">>
        \o (IF nl THEN <<"\n">> ELSE <<>>) \o <<"NEXT">>
ForPrograms == {ForProgram(a, b, nl) : a \in ForLimits, b \in ForLimits, nl \in BOOLEAN}
ForPrefix(h) == \E p \in ForPrograms : IsPrefix(h, p)
ForDone(h) == h \in ForPrograms

ForAssign == Word({"DEF", "FOR"}, {<<"i", "=">>}, ForPrefix)
ForWord == Word(ForLimits \cup {"i", "PRINT", "\n", "TO", "DO", "NEXT"}, NoLA, ForPrefix)
ForEnd == Finish(ForDone)
ForExec == ExecUpTo(MaxForSteps)

NextFor == ForAssign \/ ForWord \/ ForEnd \/ ForExec

SpecFor == Init /\ [][NextFor]_vars

\* a, a+1, ..., b-1: the values of the loop variable the body is to run with
RECURSIVE UpTo(_, _)
UpTo(a, b) == IF a >= b THEN <<>> ELSE <<Num(a)>> \o UpTo(a + 1, b)

\* C9: FOR i = a TO b DO i PRINT NEXT, with i declared, runs to its end and
\* prints a, a+1, ..., b-1 in this order and nothing else (nothing when a >= b).
C9_ForLoop ==
    \A a \in ForLimits : \A b \in ForLimits : \A nl \in BOOLEAN :
        (eof /\ hist.w = ForProgram(a, b, nl)) =>
            /\ status \in {"run", "exit0"}
            /\ status = "run" => nsteps < MaxForSteps
            /\ status = "exit0" => out = UpTo(float(a), float(b))


(***************************************************************************)
(* Specification SpecLoopMix: after DEF x = 0, one loop opened by          *)
(*     WHILE c DO     or     FOR x = a TO b DO                             *)
(* with an empty body or the body 1 PRINT, and closed by OD or by NEXT.    *)
(* The sources are compiled, not run.                                      *)
(***************************************************************************)
MaxMixLimit == 2
MixLimits == {w \in Literals : float(w) <= MaxMixLimit}
MixHeads ==
    {<<"WHILE", c, "DO">> : c \in {"0", "1"}}
        \cup {<<"FOR", "x", "=", a, "TO", b, "DO">> : a \in MixLimits, b \in MixLimits}
MixBodies == {<<>>, <<"1", "PRINT", "\n">>}
MixPrograms ==
    {<<"DEF", "x", "=", "0", "\n">> \o hd \o bd \o <<cl>> :
        hd \in MixHeads, bd \in MixBodies, cl \in {"OD", "NEXT"}}
MixPrefix(h) == \E p \in MixPrograms : IsPrefix(h, p)
MixDone(h) == h \in MixPrograms

MixAssign == Word({"DEF", "FOR"}, {<<"x", "=">>}, MixPrefix)
MixWord ==
    Word(Literals \cup {"PRINT", "\n", "WHILE", "TO", "DO"}, NoLA, MixPrefix)
MixClose == Word({"OD", "NEXT"}, NoLA, MixPrefix)
MixEnd == Finish(MixDone)

NextLoopMix == MixAssign \/ MixWord \/ MixClose \/ MixEnd

SpecLoopMix == Init /\ [][NextLoopMix]_vars

\* OD has just been compiled on an open FOR loop, or NEXT on an open WHILE loop
WrongCloser ==
    \/ JustCompiled("OD") /\ hist.match.w = "FOR"
    \/ JustCompiled("NEXT") /\ hist.match.w = "WHILE"

\* C11: OD closes only a WHILE loop and NEXT only a FOR loop: the closer of
\* the other kind of loop reports a syntax error (one more recoverable error,
\* compilation goes on) and emits no jump, so the code streams stay as they
\* were.
C11_ClosersMatchOwnConstruct ==
    WrongCloser =>
        /\ status = "compile"
        /\ ERRNO = hist.pre.ERRNO + 1
        /\ heap = hist.pre.heap


(***************************************************************************)
(* Specification SpecErrors: sources of at most MaxErrWords words, all of  *)
(* them the unknown word zz (one recoverable error each) but possibly the  *)
(* last, which may be the literal 1.  They are compiled, not run.          *)
(***************************************************************************)
MaxErrWords == 103
ErrPrefix(h) ==
    /\ Len(h) <= MaxErrWords
    /\ \A i \in 1..(Len(h) - 1) : h[i] = "zz"

ErrUnknown == Word({"zz"}, NoLA, ErrPrefix)
ErrLiteral == Word({"1"}, NoLA, ErrPrefix)
ErrEnd == Finish(Always)

NextErrors == ErrUnknown \/ ErrLiteral \/ ErrEnd

SpecErrors == Init /\ [][NextErrors]_vars

\* C12: the process aborts when the 100th recoverable error is reported: the
\* error counter never exceeds 100, and once it is 100 the process has ended,
\* so that no word is compiled after the 100th error.
C12_AbortAtHundredthError ==
    /\ ERRNO <= 100
    /\ ERRNO = 100 => status = "giveup"


(***************************************************************************)
(* Specification SpecStack: the programs                                   *)
(*     STACK s / 1 2 3 / PUSH(s v1) / ... / PUSH(s vn) / LEN(s) PRINT      *)
(* with the statements on one line or on a line each, compiled and run.    *)
(***************************************************************************)
MaxPushes == 2
MaxStackSteps == 20
PushValues == {"10", "20"}
PushSeqs == UNION {[1..n -> PushValues] : n \in 1..MaxPushes}
StackSep(nl) == IF nl THEN <<"\n">> ELSE <<>>
RECURSIVE PushParts(_, _, _)
PushParts(vs, i, nl) ==
    IF i > Len(vs) THEN <<>>
    ELSE <<"PUSH", "(", "s", vs[i], ")">> \o StackSep(nl) \o PushParts(vs, i + 1, nl)
StackProgram(vs, nl) ==
    <<"STACK", "s">> \o StackSep(nl) \o <<"1", "2", "3">> \o StackSep(nl)
        \o PushParts(vs, 1, nl) \o <<"LEN", "(", "s", ")", "PRINT">>
StackPrograms == {StackProgram(vs, nl) : vs \in PushSeqs, nl \in BOOLEAN}
StackPrefix(h) == \E p \in StackPrograms : IsPrefix(h, p)
StackDone(h) == h \in StackPrograms

StackDeclare == Word({"STACK"}, {<<"s">>}, StackPrefix)
StackWord ==
    Word(Literals \cup {"s", "PUSH", "LEN", "(", ")", "PRINT", "\n"}, NoLA, StackPrefix)
StackEnd == Finish(StackDone)
StackExec == ExecUpTo(MaxStackSteps)

NextStack == StackDeclare \/ StackWord \/ StackEnd \/ StackExec

SpecStack == Init /\ [][NextStack]_vars

\* C13: the program runs to its end, prints the number of values pushed on s
\* (2 for PUSH(s 10) PUSH(s 20)), each PUSH(s v) having appended v to s, and
\* leaves 1 2 3 on the data stack.
C13_UserStack ==
    \A vs \in PushSeqs : \A nl \in BOOLEAN :
        (eof /\ hist.w = StackProgram(vs, nl)) =>
            /\ status \in {"run", "exit0"}
            /\ status = "run" => nsteps < MaxStackSteps
            /\ status = "exit0" =>
                  /\ out = <<Num(Len(vs))>>
                  /\ DSTK = <<Num(1), Num(2), Num(3)>>
                  /\ lst(Pack(<<>>), VSTK[1]) = [i \in 1..Len(vs) |-> Num(float(vs[i]))]


(***************************************************************************)
(* Specification SpecAssign: the programs                                  *)
(*     (DEF y = 1 /)? DEF x = a LET x = x op b <statement> PRINT x         *)
(* where <statement> is nothing, a newline, an empty block, an empty       *)
(* conditional or an empty loop; they are compiled and run.                *)
(***************************************************************************)
MaxAssignSteps == 24
AssignFirst == {"5", "2"}
AssignSecond == {"1", "3"}
AssignFollowers ==
    { <<>>, <<"\n">>, <<"CMD", "f", "END">>, <<"IF", "1", "THEN", "FI">>,
      <<"WHILE", "0", "DO", "OD">> }
AssignProgram(y, a, op, b, f) ==
    (IF y THEN <<"DEF", "y", "=", "1", "\n">> ELSE <<>>)
        \o <<"DEF", "x", "=", a, "LET", "x", "=", "x", op, b>> \o f \o <<"PRINT", "x">>
AssignPrograms ==
    {AssignProgram(y, a, op, b, f) :
        y \in BOOLEAN, a \in AssignFirst, op \in ExprOps, b \in AssignSecond,
        f \in AssignFollowers}
AssignPrefix(h) == \E p \in AssignPrograms : IsPrefix(h, p)
AssignDone(h) == h \in AssignPrograms

AssignStore == Word({"DEF", "LET"}, {<<"x", "=">>, <<"y", "=">>}, AssignPrefix)
AssignBlock == Word({"CMD"}, {<<"f">>}, AssignPrefix)
AssignWord ==
    Word(Literals \cup ExprOps \cup {"x", "PRINT", "\n", "END", "IF", "THEN", "FI",
                                     "WHILE", "DO", "OD"}, NoLA, AssignPrefix)
AssignEnd == Finish(AssignDone)
AssignExec == ExecUpTo(MaxAssignSteps)

NextAssign == AssignStore \/ AssignBlock \/ AssignWord \/ AssignEnd \/ AssignExec

SpecAssign == Init /\ [][NextAssign]_vars

AssignValue(a, op, b) ==
    CASE op = "+" -> float(a) + float(b)
      [] op = "-" -> float(a) - float(b)
      [] op = "*" -> float(a) * float(b)

\* C14: DEF allocates exactly one variable slot, at the index that is the
\* length of the variable stack at that moment; after DEF x = a and
\* LET x = x op b, whatever statement follows, x holds a op b (the right-hand
\* side evaluated with the old value of x) and PRINT x prints it.
C14_Assignment ==
    /\ JustCompiled("DEF") =>
          /\ status = "compile"
          /\ VSTK = Append(hist.pre.VSTK, Num(0))
          /\ dictAt(Pack(<<>>), -1) = Num(Len(hist.pre.VSTK))
    /\ \A y \in BOOLEAN : \A a \in AssignFirst : \A op \in ExprOps :
       \A b \in AssignSecond : \A f \in AssignFollowers :
          (eof /\ hist.w = AssignProgram(y, a, op, b, f)) =>
              /\ status \in {"run", "exit0"}
              /\ status = "run" => nsteps < MaxAssignSteps
              /\ status = "exit0" =>
                    /\ out = <<Num(AssignValue(a, op, b))>>
                    /\ VSTK[IF y THEN 2 ELSE 1] = Num(AssignValue(a, op, b))


(***************************************************************************)
(* Exit status, checked under Spec.  status = "exit0" is the process       *)
(* ending with status 0 (the main program runs off its end), "fatal" and   *)
(* "giveup" are exit(-1), "crash" is an uncaught exception (status 1).     *)
(***************************************************************************)
\* C15: the process ends with status 0 only when no error was reported (the
\* error counter is still 0); a run that reported a recoverable error ends
\* with another status.
C15_ExitStatus == status = "exit0" => ERRNO = 0


(***************************************************************************)
(* Specification SpecFlush: after DEF x = 0 and a newline, a statement     *)
(* boundary word compiled right after an expression or statement whose     *)
(* operators are still deferred on _DSTK.  Compile time only.              *)
(***************************************************************************)
Boundary == {"\n", "THEN", "ELSE", "FI", "DO", "OD", "END", "NEXT", "TO"}
FlushPrelude == <<"DEF", "x", "=", "0", "\n">>
\* The words before the boundary word and the boundary word
FlushHeads ==
    { << <<>>, "\n" >>,
      << <<"IF">>, "THEN" >>,
      << <<"IF", "1", "THEN">>, "ELSE" >>,
      << <<"IF", "1", "THEN">>, "FI" >>,
      << <<"IF", "1", "THEN", "ELSE">>, "FI" >>,
      << <<"WHILE">>, "DO" >>,
      << <<"WHILE", "1", "DO">>, "OD" >>,
      << <<"FOR", "x", "=">>, "TO" >>,
      << <<"FOR", "x", "=", "0", "TO">>, "DO" >>,
      << <<"FOR", "x", "=", "0", "TO", "1", "DO">>, "NEXT" >>,
      << <<"CMD", "f">>, "END" >> }
\* What is written right before the boundary word
FlushPending ==
    { <<>>, <<"1", "+", "2">>, <<"1", "+", "2", "*", "3">>, <<"PRINT", "1">>,
      <<"LET", "x", "=", "x", "+", "1">>, <<"(", "1", "+", "2">>,
      <<"PRINT", "(", "1", "+", "2", "*", "3">> }
FlushPrograms ==
    {FlushPrelude \o hd[1] \o e \o <<hd[2]>> : hd \in FlushHeads, e \in FlushPending}
FlushPrefix(h) == \E p \in FlushPrograms : IsPrefix(h, p)

FlushAssign == Word({"DEF", "LET", "FOR"}, {<<"x", "=">>}, FlushPrefix)
FlushBlock == Word({"CMD"}, {<<"f">>}, FlushPrefix)
FlushWord ==
    Word(Literals \cup Boundary \cup {"x", "+", "*", "PRINT", "(", "IF", "WHILE"},
         NoLA, FlushPrefix)

NextFlush == FlushAssign \/ FlushBlock \/ FlushWord

SpecFlush == Init /\ [][NextFlush]_vars

\* The number of triples (v, r, p) with p >= 1 on top of the deferred stack d
RECURSIVE TopDeferred(_)
TopDeferred(d) ==
    IF Len(d) >= 3 /\ IsNum(d[Len(d)]) /\ d[Len(d)].n >= 1
    THEN 1 + TopDeferred(SubSeq(d, 1, Len(d) - 3))
    ELSE 0

\* The code of the k triples on top of d, in the order they are popped
FlushedCode(d, k) ==
    [j \in 1..(2 * k) |->
        IF j % 2 = 1 THEN d[Len(d) - 3 * ((j - 1) \div 2) - 1]
        ELSE d[Len(d) - 3 * ((j - 1) \div 2) - 2]]

\* The boundary word hist.word has been compiled and compilation goes on
BoundaryCompiled == JustCompiled(hist.word) /\ hist.word \in Boundary /\ status = "compile"

\* C16: when a statement boundary word has been compiled, the operators of
\* priority >= 1 that were on top of the deferred stack (down to the nearest
\* parenthesis barrier) have been appended, in pop order, to the stream that
\* was current, right after the code it held and so before anything the word
\* itself emits, and none of them is left on the deferred stack (TO leaves
\* its own comparison there).
C16_BoundaryFlush ==
    BoundaryCompiled =>
        LET d == hist.pre.DSTK
            k == TopDeferred(d)
            c0 == lst(hist.pre, hist.pre.CSTK)
            c1 == heap[hist.pre.CSTK.n]
        IN  /\ Len(c1) >= Len(c0) + 2 * k
            /\ SubSeq(c1, Len(c0) + 1, Len(c0) + 2 * k) = FlushedCode(d, k)
            /\ Len(DSTK) <= Len(d) - 3 * k + (IF hist.word = "TO" THEN 3 ELSE 0)


(***************************************************************************)
(* Specification SpecBlock: after DEF x = 0 and a newline, a block         *)
(*     <pending> CMD|PROC|FUNC f <body> END                                *)
(* opened right after an expression or statement whose operators are       *)
(* still deferred on _DSTK.  Compile time only.                            *)
(***************************************************************************)
BeginWords == {"CMD", "PROC", "FUNC"}
BlockPending ==
    { <<>>, <<"1", "+", "2">>, <<"PRINT", "1">>, <<"LET", "x", "=", "x", "+", "1">>,
      <<"1", "\n">> }
BlockContents == { <<>>, <<"PRINT", "x">>, <<"x", "+", "1">>, <<"2", "\n">> }
BlockPrograms ==
    {FlushPrelude \o e \o <<b, "f">> \o c \o <<"END">> :
        e \in BlockPending, b \in BeginWords, c \in BlockContents}
BlockPrefix(h) == \E p \in BlockPrograms : IsPrefix(h, p)

BlockAssign == Word({"DEF", "LET"}, {<<"x", "=">>}, BlockPrefix)
BlockBegin == Word(BeginWords, {<<"f">>}, BlockPrefix)
BlockWord == Word(Literals \cup {"x", "+", "PRINT", "\n", "END"}, NoLA, BlockPrefix)

NextBlock == BlockAssign \/ BlockBegin \/ BlockWord

SpecBlock == Init /\ [][NextBlock]_vars

\* The stream l of state s with the operators deferred in s appended
WithDeferred(s, l) == lst(s, l) \o FlushedCode(s.DSTK, TopDeferred(s.DSTK))

\* C17: right after CMD, PROC or FUNC the current stream is a new, empty one
\* and the enclosing stream holds what it held before the word followed by
\* the operators that were deferred at that moment; right after the matching
\* END the enclosing stream is current again and still holds exactly that.
C17_BlockFrame ==
    /\ (JustCompiled(hist.word) /\ hist.word \in BeginWords /\ status = "compile") =>
          /\ CSTK # hist.pre.CSTK
          /\ lst(Pack(<<>>), CSTK) = <<>>
          /\ heap[hist.pre.CSTK.n] = WithDeferred(hist.pre, hist.pre.CSTK)
    /\ (JustCompiled("END") /\ hist.match.w \in BeginWords /\ status = "compile") =>
          /\ CSTK = hist.match.s.CSTK
          /\ lst(Pack(<<>>), CSTK) = WithDeferred(hist.match.s, hist.match.s.CSTK)


(***************************************************************************)
(* Specification SpecBinary: the programs  (5 /)? a op b  for every binary *)
(* operator op and small operands; they are compiled and run.              *)
(***************************************************************************)
MaxBinSteps == 6
BinOps == {"+", "-", "*", "/", "**", "=", "<>", "<", "<=", ">", ">=", "AND", "OR"}
BinOperands == {"0", "1", "2", "3"}
BinProgram(below, a, op, b) ==
    (IF below THEN <<"5", "\n">> ELSE <<>>) \o <<a, op, b>>
BinPrograms ==
    {BinProgram(below, a, op, b) :
        below \in BOOLEAN, a \in BinOperands, op \in BinOps, b \in BinOperands}
BinPrefix(h) == \E p \in BinPrograms : IsPrefix(h, p)
BinDone(h) == h \in BinPrograms

BinOperand == Word(BinOperands \cup {"5", "\n"}, NoLA, BinPrefix)
BinOperator == Word(BinOps, NoLA, BinPrefix)
BinEnd == Finish(BinDone)
BinExec == ExecUpTo(MaxBinSteps)

NextBinary == BinOperand \/ BinOperator \/ BinEnd \/ BinExec

SpecBinary == Init /\ [][NextBinary]_vars

\* C18: the program (5 /)? a op b runs to its end for every binary operator
\* op and all operands a, b, and leaves on the data stack what was below the
\* operands and one result: the opcode has removed two values and pushed one.
\* The result of AND is 1 when both operands are non-zero and 0 otherwise,
\* that of OR is 1 when at least one is non-zero and 0 otherwise.
C18_BinaryOpcodes ==
    \A below \in BOOLEAN : \A a \in BinOperands : \A op \in BinOps : \A b \in BinOperands :
        (eof /\ hist.w = BinProgram(below, a, op, b)) =>
            /\ status \in {"run", "exit0"}
            /\ status = "run" => nsteps < MaxBinSteps
            /\ status = "exit0" =>
                  /\ Front(DSTK) = (IF below THEN <<Num(5)>> ELSE <<>>)
                  /\ IsNum(Last(DSTK))
                  /\ op = "AND" => Last(DSTK) = Num(Bool(a # "0" /\ b # "0"))
                  /\ op = "OR" => Last(DSTK) = Num(Bool(a # "0" \/ b # "0"))


(***************************************************************************)
(* Specification SpecReturn: programs with one variable x whose blocks     *)
(* are PROC or FUNC words, called at run time by a CALL instruction:       *)
(*   nested     g prints 2; f prints 1, calls g, prints 3; the program     *)
(*              calls f once or twice and prints 4                         *)
(*   recursive  f prints x and, while x < n, increments x and calls        *)
(*              itself, then prints x; the program calls f and prints 4    *)
(* They are compiled and run.                                              *)
(***************************************************************************)
MaxDepth == 2
MaxReturnSteps == 80
CallWords == {"PROC", "FUNC"}
RetVars == <<"x">>
RetPrelude == <<"DEF", "x", "=", "0", "\n">>
NestedProgram(b, twice) ==
    RetPrelude
        \o <<b, "g", "PRINT", "2", "END", "\n">>
        \o <<b, "f", "PRINT", "1", "\n", "g", "\n", "PRINT", "3", "END", "\n">>
        \o <<"f", "\n">> \o (IF twice THEN <<"f", "\n">> ELSE <<>>)
        \o <<"PRINT", "4">>
RecursiveProgram(b, n) ==
    RetPrelude
        \o <<b, "f", "PRINT", "x", "\n", "IF", "x", "<", n, "THEN",
             "LET", "x", "=", "x", "+", "1", "\n", "f", "\n", "FI",
             "PRINT", "x", "END", "\n">>
        \o <<"f", "\n", "PRINT", "4">>
Depths == {d \in {"0", "1", "2", "3", "4", "5"} : float(d) <= MaxDepth}
RetPrograms ==
    {NestedProgram(b, t) : b \in CallWords, t \in BOOLEAN}
        \cup {RecursiveProgram(b, n) : b \in CallWords, n \in Depths}
RetPrefix(h) == \E p \in RetPrograms : IsPrefix(h, p)
RetDone(h) == h \in RetPrograms

RetAssign == Word({"DEF", "LET"}, {<<"x", "=">>}, RetPrefix)
RetBegin == Word(CallWords, {<<"f">>, <<"g">>}, RetPrefix)
RetWord ==
    Word(Literals \cup {"x", "f", "g", "+", "<", "PRINT", "\n", "IF", "THEN", "FI", "END"},
         NoLA, RetPrefix)
RetEnd == Finish(RetDone)
RetExec == ExecUpTo(MaxReturnSteps)

NextReturn == RetAssign \/ RetBegin \/ RetWord \/ RetEnd \/ RetExec

SpecReturn == Init /\ [][NextReturn]_vars

\* The numbers a, a + 1, ..., b
Counting(a, b) == [i \in 1..(b - a + 1) |-> Num(a + i - 1)]
\* The number x, k times
Repeated(x, k) == [i \in 1..k |-> Num(x)]
NestedOutput(twice) ==
    <<Num(1), Num(2), Num(3)>> \o (IF twice THEN <<Num(1), Num(2), Num(3)>> ELSE <<>>)
        \o <<Num(4)>>
RecursiveOutput(n) == Counting(0, n) \o Repeated(n, n + 1) \o <<Num(4)>>

\* The call frames on _VSTK, above the variables: their number, and for the
\* j-th frame from the bottom the saved stream, the saved pc and the stream
\* that was entered when the frame was pushed
TopLevel == Ref(1)
NFrames == (Len(VSTK) - Len(RetVars)) \div 2
FrameStream(j) == VSTK[Len(RetVars) + 2 * j - 1]
FramePc(j) == VSTK[Len(RetVars) + 2 * j]
FrameCallee(j) == IF j < NFrames THEN FrameStream(j + 1) ELSE CSTK
FrameMatchesCall(j) ==
    /\ IsRef(FrameStream(j)) /\ IsNum(FramePc(j))
    /\ FramePc(j).n >= 2 /\ FramePc(j).n <= Len(heap[FrameStream(j).n])
    /\ heap[FrameStream(j).n][FramePc(j).n - 1] = Fn("CALL")
    /\ heap[FrameStream(j).n][FramePc(j).n] = FrameCallee(j)

\* C19: while a program runs, _VSTK is the variables followed by one frame
\* per CALL not yet returned from, innermost on top; each frame holds the
\* caller's stream and the pc right after the CALL that entered the stream
\* executing above it, the bottom frame belonging to the top-level stream;
\* the loop does not stop inside a call, and when it has stopped the
\* top-level stream is current, pc is its length and no frame is left.  The
\* output shows that every call returned right after its CALL: 1 2 3 (once
\* per call of f) 4 for the nested programs, 0 .. n, n + 1 times n, 4 for
\* the recursive ones.
C19_CallReturn ==
    (eof /\ status \in {"run", "exit0", "crash", "fatal", "giveup"}) =>
        /\ status \in {"run", "exit0"}
        /\ status = "run" => nsteps < MaxReturnSteps
        /\ Len(VSTK) >= Len(RetVars) /\ (Len(VSTK) - Len(RetVars)) % 2 = 0
        /\ \A j \in 1..NFrames : FrameMatchesCall(j)
        /\ IF NFrames > 0 THEN FrameStream(1) = TopLevel ELSE CSTK = TopLevel
        /\ (status = "run" /\ NFrames > 0) => IP.n < Len(heap[CSTK.n])
        /\ status = "exit0" =>
              /\ NFrames = 0 /\ IP = Num(Len(heap[TopLevel.n]))
              /\ \A b \in CallWords : \A t \in BOOLEAN :
                    hist.w = NestedProgram(b, t) => out = NestedOutput(t)
              /\ \A b \in CallWords : \A n \in Depths :
                    hist.w = RecursiveProgram(b, n) =>
                        /\ out = RecursiveOutput(float(n))
                        /\ VSTK = <<Num(float(n))>>

\* A recursive call MaxDepth deep is executing: MaxDepth + 1 frames on _VSTK
C19_Witness ==
    /\ status = "run" /\ NFrames = MaxDepth + 1
    /\ \A j \in 1..NFrames : FrameMatchesCall(j)
    /\ CSTK # TopLevel


(***************************************************************************)
(* Specification SpecWhile: the loops, after DEF x = 0 and DEF y = 0,      *)
(*   simple   WHILE cond DO PRINT x / LET x = x + 1 (/)? OD PRINT 4        *)
(*            where cond is x < n, or c, a function that prints 42 when    *)
(*            it is evaluated and returns x < n                            *)
(*   nested   WHILE x < n DO LET y = 0 /                                   *)
(*                WHILE y < 2 DO PRINT y / LET y = y + 1 OD                *)
(*                LET x = x + 1 OD PRINT 4                                 *)
(* They are compiled and run.                                              *)
(***************************************************************************)
MaxWhileLimit == 3
MaxWhileSteps == 200
WhileLimits == {d \in {"0", "1", "2", "3", "4", "5"} : float(d) <= MaxWhileLimit}
WhilePrelude(n) ==
    <<"DEF", "x", "=", "0", "\n", "DEF", "y", "=", "0", "\n",
      "FUNC", "c", "PRINT", "42", "\n", "x", "<", n, "END", "\n">>
WhileProgram(n, marked, nl) ==
    WhilePrelude(n)
        \o <<"WHILE">> \o (IF marked THEN <<"c">> ELSE <<"x", "<", n>>)
        \o <<"DO", "PRINT", "x", "\n", "LET", "x", "=", "x", "+", "1">>
        \o (IF nl THEN <<"\n">> ELSE <<>>)
        \o <<"OD", "PRINT", "4">>
NestedWhile(n) ==
    WhilePrelude(n)
        \o <<"WHILE", "x", "<", n, "DO", "LET", "y", "=", "0", "\n">>
        \o <<"WHILE", "y", "<", "2", "DO", "PRINT", "y", "\n",
             "LET", "y", "=", "y", "+", "1", "OD">>
        \o <<"LET", "x", "=", "x", "+", "1", "OD", "PRINT", "4">>
WhilePrograms ==
    {WhileProgram(n, m, nl) : n \in WhileLimits, m \in BOOLEAN, nl \in BOOLEAN}
        \cup {NestedWhile(n) : n \in WhileLimits}
WhilePrefix(h) == \E p \in WhilePrograms : IsPrefix(h, p)
WhileDone(h) == h \in WhilePrograms

WhileAssign == Word({"DEF", "LET"}, {<<"x", "=">>, <<"y", "=">>}, WhilePrefix)
WhileDefine == Word({"FUNC"}, {<<"c">>}, WhilePrefix)
WhileWord ==
    Word(Literals \cup {"x", "y", "c", "<", "+", "PRINT", "\n", "END", "WHILE", "DO", "OD"},
         NoLA, WhilePrefix)
WhileEnd == Finish(WhileDone)
WhileExec == ExecUpTo(MaxWhileSteps)

NextWhile == WhileAssign \/ WhileDefine \/ WhileWord \/ WhileEnd \/ WhileExec

SpecWhile == Init /\ [][NextWhile]_vars

\* What the simple loop prints: for x = 0 .. n - 1 the mark of the condition
\* (if it has one) and x, then the mark of the last evaluation and the 4 of
\* the statement after OD
RECURSIVE WhileFrom(_, _, _)
WhileFrom(x, n, marked) ==
    (IF marked THEN <<Num(42)>> ELSE <<>>)
        \o (IF x < n THEN <<Num(x)>> \o WhileFrom(x + 1, n, marked) ELSE <<Num(4)>>)
\* What the nested loops print: 0 1, n times, and the 4
RECURSIVE NestedFrom(_, _)
NestedFrom(x, n) ==
    IF x < n THEN <<Num(0), Num(1)>> \o NestedFrom(x + 1, n) ELSE <<Num(4)>>

\* The stream index WHILE recorded: the length of the current stream once the
\* operators deferred before WHILE are flushed
WhileTop == Len(WithDeferred(hist.match.s, hist.match.s.CSTK))
\* The position in the stream c of the first JPZ from the stream index a on
JpzAfter(c, a) ==
    CHOOSE j \in (a + 1)..Len(c) :
        /\ j % 2 = 1 /\ c[j] = Fn("JPZ")
        /\ \A i \in (a + 1)..(j - 1) : i % 2 = 1 => c[i] # Fn("JPZ")

\* C20: when OD has closed a WHILE loop, the stream ends with a JP to the
\* index WHILE recorded, where the code of the condition starts, and the JPZ
\* that DO emitted after the condition holds the index right after that JP;
\* run, the loop evaluates the condition before every iteration, runs the
\* body as long as it is non-zero and then goes on after the JP.
C20_WhileLoop ==
    /\ (JustCompiled("OD") /\ hist.match.w = "WHILE" /\ status = "compile") =>
          LET c == lst(Pack(<<>>), CSTK)
          IN  /\ CSTK = hist.match.s.CSTK
              /\ Len(c) >= WhileTop + 4
              /\ c[Len(c) - 1] = Fn("JP") /\ c[Len(c)] = Num(WhileTop)
              /\ \E j \in (WhileTop + 1)..Len(c) : j % 2 = 1 /\ c[j] = Fn("JPZ")
              /\ c[JpzAfter(c, WhileTop) + 1] = Num(Len(c))
    /\ \A n \in WhileLimits :
          /\ \A m \in BOOLEAN : \A nl \in BOOLEAN :
                (eof /\ hist.w = WhileProgram(n, m, nl)) =>
                    /\ status \in {"run", "exit0"}
                    /\ ERRNO = 0
                    /\ status = "run" => nsteps < MaxWhileSteps
                    /\ status = "exit0" =>
                          /\ out = WhileFrom(0, float(n), m)
                          /\ VSTK = <<Num(float(n)), Num(0)>>
          /\ (eof /\ hist.w = NestedWhile(n)) =>
                /\ status \in {"run", "exit0"}
                /\ ERRNO = 0
                /\ status = "run" => nsteps < MaxWhileSteps
                /\ status = "exit0" => out = NestedFrom(0, float(n))

\* The loop WHILE c DO .. OD with n = 2 has run: the condition was evaluated
\* three times, the body twice, and the statement after OD once
C20_Witness ==
    /\ status = "exit0"
    /\ hist.w = WhileProgram("2", TRUE, FALSE)
    /\ out = <<Num(42), Num(0), Num(42), Num(1), Num(42), Num(4)>>


(***************************************************************************)
(* Specification SpecJumps: after DEF x = 0 and a block f (CMD or PROC)    *)
(* that prints 3 and 4, one statement made of two nested constructs        *)
(* around a leaf: nothing, PRINT 1, or the use of f.  A construct is a     *)
(* conditional (with ELSE, with ELIF), a WHILE loop, a FOR loop or a block *)
(* PROC g .. END.  Compile time only, up to the start of execute().        *)
(***************************************************************************)
JumpBlocks == {"CMD", "PROC"}
JumpPrelude(b) ==
    <<"DEF", "x", "=", "0", "\n", b, "f", "PRINT", "3", "\n", "PRINT", "4", "\n",
      "END", "\n">>
JumpLeaves == { <<>>, <<"PRINT", "1", "\n">>, <<"f", "\n">> }
Around(s) ==
    { <<"IF", "1", "THEN">> \o s \o <<"FI">>,
      <<"IF", "0", "THEN">> \o s \o <<"ELSE">> \o s \o <<"FI">>,
      <<"IF", "0", "THEN">> \o s \o <<"ELIF", "1", "THEN">> \o s \o <<"FI">>,
      <<"WHILE", "0", "DO">> \o s \o <<"OD">>,
      <<"FOR", "x", "=", "0", "TO", "1", "DO">> \o s \o <<"NEXT">>,
      <<"PROC", "g">> \o s \o <<"END">> }
JumpStatements == UNION {Around(s1) : s1 \in UNION {Around(s) : s \in JumpLeaves}}
JumpPrograms == {JumpPrelude(b) \o s : b \in JumpBlocks, s \in JumpStatements}
JumpPrefix(h) == \E p \in JumpPrograms : IsPrefix(h, p)
JumpDone(h) == h \in JumpPrograms

JumpAssign == Word({"DEF", "FOR"}, {<<"x", "=">>}, JumpPrefix)
JumpBegin == Word(JumpBlocks, {<<"f">>, <<"g">>}, JumpPrefix)
JumpWord ==
    Word(Literals \cup {"f", "PRINT", "\n", "END", "IF", "THEN", "ELIF", "ELSE", "FI",
                        "WHILE", "DO", "OD", "TO", "NEXT"}, NoLA, JumpPrefix)
JumpEnd == Finish(JumpDone)

NextJumps == JumpAssign \/ JumpBegin \/ JumpWord \/ JumpEnd

SpecJumps == Init /\ [][NextJumps]_vars

IsJump(r) == r = Fn("JP") \/ r = Fn("JPZ")
\* Every JP and JPZ of the stream c holds an even index of c, its length
\* included, and so no placeholder
JumpsPatched(c) ==
    \A j \in 1..Len(c) :
        (j % 2 = 1 /\ IsJump(c[j])) =>
            /\ j < Len(c) /\ IsNum(c[j + 1])
            /\ c[j + 1].n # PLACEHOLDER
            /\ c[j + 1].n >= 0 /\ c[j + 1].n <= Len(c) /\ c[j + 1].n % 2 = 0

\* C21: every program of the family is compiled to its end without an error,
\* and then every JP and JPZ of every code stream holds an even index between
\* 0 and the length of its own stream, none the placeholder; and a compile
\* step writes to no stream but the one that was current before it.
C21_JumpsPatched ==
    /\ (status = "compile" /\ hist.word # "") =>
          \A i \in 1..Len(hist.pre.heap) :
              i # hist.pre.CSTK.n => heap[i] = hist.pre.heap[i]
    /\ status # "compile" =>
          /\ eof /\ status = "run" /\ ERRNO = 0
          /\ \A i \in 1..Len(heap) : JumpsPatched(heap[i])

====
